---- MODULE Spec2Model ----
(***************************************************************************)
(* Model of src/server.js: an Express HTTP API with five route handlers    *)
(* over the MySQL table module_cards.  The file holds two server programs  *)
(* (lines 1-227 and 229-427) whose handlers are identical and whose CORS   *)
(* middleware differs; `variant` says which one is running.                *)
(* Spec is the server under requests that carry no Origin header,          *)
(* SpecOrigin the server under requests from every origin.                 *)
(*                                                                         *)
(* A request goes through these steps, each one an action:                 *)
(*   Receive     the middleware chain (express.json, cors) and the handler *)
(*               up to its first await (validation, then the call of       *)
(*               mysql.createConnection)                                   *)
(*   ConnectOk / ConnectFail   createConnection resolves or rejects        *)
(*   ExecOk      the storage runs the statement, atomically                *)
(*   Reply       the handler resumes after the await and sends the         *)
(*               response of the try block, then enters finally            *)
(*   ExecFail    the statement fails: catch block, then finally            *)
(*   End         connection.end() of the finally block completes           *)
(* JSON body values are absent, null or strings.                           *)
(***************************************************************************)
EXTENDS Integers, Sequences, FiniteSets, TLC

VARIABLES variant, pc, req, conn, ended, fault, stamp, result, resp,
          cards, nextId, clock

vars == <<variant, pc, req, conn, ended, fault, stamp, result, resp,
          cards, nextId, clock>>

(* ------------------------------ bounds ------------------------------- *)
MaxRequests == 3
MaxId == 2

Req == 1..MaxRequests
IdParams == 1..MaxId

(* --------------------------- JSON values ----------------------------- *)
Undefined == [t |-> "undefined", v |-> ""]
Null == [t |-> "null", v |-> ""]
Str(s) == [t |-> "string", v |-> s]

\* JavaScript truthiness of a JSON value: `!x` is true for undefined, null, "".
TruthyPresenceOnly(x) == x.t # "undefined"
Truthy(x) == x.t = "string" /\ x.v # ""

\* x ?? d
Coalesce(x, d) == IF x.t \in {"undefined", "null"} THEN d ELSE x

(* ------------------------------ inputs ------------------------------- *)
NoOrigin == "<none>"
Origins == {NoOrigin, "http://localhost:3000", "https://cards.onrender.com",
            "https://evil.example"}

MinimalBody == [title |-> Str("T1"), module_name |-> Str("M1"),
                module_code |-> Str("C1"), description |-> Undefined,
                status |-> Undefined]
FullBody == [title |-> Str("T2"), module_name |-> Str("M2"),
             module_code |-> Str("C2"), description |-> Str("D2"),
             status |-> Str("DONE")]
NoBody == [title |-> Undefined, module_name |-> Undefined,
           module_code |-> Undefined, description |-> Undefined,
           status |-> Undefined]
Bodies == {MinimalBody, FullBody,
           [FullBody EXCEPT !.title = Undefined],
           [MinimalBody EXCEPT !.module_name = Str("")],
           [FullBody EXCEPT !.module_code = Null]}

Kinds == {"LIST", "GET", "POST", "PUT", "DELETE"}
HasId(k) == k \in {"GET", "PUT", "DELETE"}
HasBody(k) == k \in {"POST", "PUT"}

RequestsFrom(Os) ==
    {q \in [kind : Kinds, id : IdParams \cup {0}, body : Bodies \cup {NoBody},
            origin : Os] :
        /\ (q.id # 0) <=> HasId(q.kind)
        /\ (q.body # NoBody) <=> HasBody(q.kind)}
\* Requests of clients that send no Origin header (server-to-server, Postman).
Requests == RequestsFrom({NoOrigin})
\* Browser requests to one route, from every origin.
OriginRequests == {q \in RequestsFrom(Origins) : q.kind = "GET"}
NoRequest == [kind |-> "NONE", id |-> 0, body |-> NoBody, origin |-> NoOrigin]

(* ------------------------------- CORS -------------------------------- *)
allowedOrigins == {"http://localhost:3000", "http://localhost:5173"}

\* The origin callback of the first program; TRUE is callback(null, true),
\* FALSE is callback(new Error("Not allowed by CORS")).
OriginCallbackRejectsNoOrigin(origin) == origin \in allowedOrigins
OriginCallback(origin) ==
    IF origin = NoOrigin THEN TRUE
    ELSE IF origin \in allowedOrigins THEN TRUE
    ELSE FALSE

\* cors() with no options (second program) reflects "*" and rejects nothing.
CorsDefault(origin) == TRUE

CorsAllows(v, origin) == IF v = 1 THEN OriginCallback(origin) ELSE CorsDefault(origin)

(* ----------------------------- responses ----------------------------- *)
Response(st, msg, id, rows) == [status |-> st, message |-> msg, id |-> id, rows |-> rows]
CorsError == Response(500, "Not allowed by CORS", 0, <<>>)
MissingFields == Response(400, "Missing required fields: title, module_name, module_code", 0, <<>>)
NotFound == Response(404, "Card not found", 0, <<>>)

ErrorMessage(k) ==
    CASE k = "LIST" -> "Server error: cards cannot be fetched"
      [] k = "GET" -> "Server error: cannot fetch card"
      [] k = "POST" -> "Server error: cannot create card"
      [] k = "PUT" -> "Server error: cannot update card"
      [] k = "DELETE" -> "Server error: cannot delete card"

\* The catch block of a handler.
CatchResponseOk(k) == Response(200, ErrorMessage(k), 0, <<>>)
CatchResponse(k) == Response(500, ErrorMessage(k), 0, <<>>)

(* ------------------------------ storage ------------------------------ *)
\* if (!title || !module_name || !module_code) of POST and of PUT
ValidCreate(b) == Truthy(b.title) /\ Truthy(b.module_name) /\ Truthy(b.module_code)
ValidUpdateTitleOnly(b) == Truthy(b.title)
ValidUpdate(b) == Truthy(b.title) /\ Truthy(b.module_name) /\ Truthy(b.module_code)

Active == Str("ACTIVE")

\* INSERT INTO module_cards (...) VALUES (?, ?, ?, ?, ?)
InsertRowNoDefault(id, b, now) ==
    [id |-> id, title |-> b.title, module_name |-> b.module_name,
     module_code |-> b.module_code, description |-> Coalesce(b.description, Null),
     status |-> b.status, created_at |-> now]
InsertRow(id, b, now) ==
    [id |-> id, title |-> b.title, module_name |-> b.module_name,
     module_code |-> b.module_code, description |-> Coalesce(b.description, Null),
     status |-> Coalesce(b.status, Active), created_at |-> now]

\* UPDATE module_cards SET title = ?, ... WHERE id = ?   (one row)
UpdateRowMerge(c, b) ==
    [c EXCEPT !.title = b.title, !.module_name = b.module_name,
              !.module_code = b.module_code,
              !.description = Coalesce(b.description, c.description),
              !.status = Coalesce(b.status, c.status)]
UpdateRowFourFields(c, b) ==
    [c EXCEPT !.title = b.title, !.module_name = b.module_name,
              !.module_code = b.module_code,
              !.description = Coalesce(b.description, Null)]
UpdateRow(c, b) ==
    [c EXCEPT !.title = b.title, !.module_name = b.module_name,
              !.module_code = b.module_code,
              !.description = Coalesce(b.description, Null),
              !.status = Coalesce(b.status, Active)]

\* WHERE id = ?
Matching(table, id) == {c \in table : c.id = id}

UpdateTable(table, id, b) ==
    {IF c.id = id THEN UpdateRow(c, b) ELSE c : c \in table}

DeleteTableAll(table, id) == {}
DeleteTable(table, id) == {c \in table : c.id # id}

\* result.affectedRows of UPDATE and DELETE: the rows the WHERE clause matched
AffectedRowsAlwaysOne(table, id) == 1
AffectedRows(table, id) == Cardinality(Matching(table, id))

\* ORDER BY created_at DESC
RECURSIVE OrderByCreatedAtDesc(_)
OrderByCreatedAtDesc(S) ==
    IF S = {} THEN <<>>
    ELSE LET m == CHOOSE c \in S : \A d \in S : d.created_at <= c.created_at
         IN <<m>> \o OrderByCreatedAtDesc(S \ {m})

SelectById(table, id) == OrderByCreatedAtDesc(Matching(table, id))

NoResult == [rows |-> <<>>, affectedRows |-> 0, insertId |-> 0]

\* if (connection) await connection.end()   in every finally block
FinallyLeak(c) == c
Finally(c) == IF c = "open" THEN "closed" ELSE c

(* ------------------------------- Init -------------------------------- *)
\* The state after start-up of program v, with an empty table.
InitProgram(v) ==
    /\ variant = v
    /\ pc = [r \in Req |-> "new"]
    /\ req = [r \in Req |-> NoRequest]
    /\ conn = [r \in Req |-> "none"]
    /\ ended = [r \in Req |-> 0]
    /\ fault = [r \in Req |-> "none"]
    /\ stamp = [r \in Req |-> 0]
    /\ result = [r \in Req |-> NoResult]
    /\ resp = [r \in Req |-> <<>>]
    /\ cards = {}
    /\ nextId = 1
    /\ clock = 0

\* Requests without an Origin header pass the cors middleware of both programs
\* and the route handlers of the two are the same text, so one program stands
\* for both here.
Init == InitProgram(1)
InitOrigin == \E v \in {1, 2} : InitProgram(v)

(* ------------------------------ actions ------------------------------ *)
\* The synchronous prefix of a request, drawn from Q: the cors middleware (a
\* rejected origin goes to the framework's error handler and never reaches a
\* route), then the handler up to its first await.
ReceiveFrom(r, Q) ==
    /\ pc[r] = "new"
    /\ \A p \in Req : p < r => pc[p] # "new"
    /\ \E q \in Q :
         /\ req' = [req EXCEPT ![r] = q]
         /\ IF ~CorsAllows(variant, q.origin)
            THEN /\ pc' = [pc EXCEPT ![r] = "done"]
                 /\ resp' = [resp EXCEPT ![r] = Append(@, CorsError)]
            ELSE IF \/ q.kind = "POST" /\ ~ValidCreate(q.body)
                    \/ q.kind = "PUT" /\ ~ValidUpdate(q.body)
            THEN /\ pc' = [pc EXCEPT ![r] = "done"]
                 /\ resp' = [resp EXCEPT ![r] = Append(@, MissingFields)]
            ELSE /\ pc' = [pc EXCEPT ![r] = "connecting"]
                 /\ resp' = resp
    /\ UNCHANGED <<variant, conn, ended, fault, stamp, result, cards, nextId, clock>>

Receive(r) == ReceiveFrom(r, Requests)
ReceiveOrigin(r) == ReceiveFrom(r, OriginRequests)

\* connection = await mysql.createConnection(dbConfig) resolves; execute is issued.
ConnectOk(r) ==
    /\ pc[r] = "connecting"
    /\ conn' = [conn EXCEPT ![r] = "open"]
    /\ pc' = [pc EXCEPT ![r] = "executing"]
    /\ UNCHANGED <<variant, req, ended, fault, stamp, result, resp, cards, nextId, clock>>

\* createConnection rejects: catch sends 500, finally finds connection undefined.
ConnectFail(r) ==
    /\ pc[r] = "connecting"
    /\ fault' = [fault EXCEPT ![r] = "connect"]
    /\ resp' = [resp EXCEPT ![r] = Append(@, CatchResponse(req[r].kind))]
    /\ conn' = [conn EXCEPT ![r] = Finally(@)]
    /\ pc' = [pc EXCEPT ![r] = "done"]
    /\ UNCHANGED <<variant, req, ended, stamp, result, cards, nextId, clock>>

\* The storage runs the request's one statement.
ExecOk(r) ==
    /\ pc[r] = "executing"
    /\ LET k == req[r].kind
           id == req[r].id
           b == req[r].body
       IN /\ cards' = CASE k = "POST" -> cards \cup {InsertRow(nextId, b, clock + 1)}
                        [] k = "PUT" -> UpdateTable(cards, id, b)
                        [] k = "DELETE" -> DeleteTable(cards, id)
                        [] OTHER -> cards
          /\ nextId' = IF k = "POST" THEN nextId + 1 ELSE nextId
          /\ result' = [result EXCEPT ![r] =
                CASE k = "LIST" -> [NoResult EXCEPT !.rows = OrderByCreatedAtDesc(cards)]
                  [] k = "GET" -> [NoResult EXCEPT !.rows = SelectById(cards, id)]
                  [] k = "POST" -> [NoResult EXCEPT !.insertId = nextId, !.affectedRows = 1]
                  [] OTHER -> [NoResult EXCEPT !.affectedRows = AffectedRows(cards, id)]]
    /\ clock' = clock + 1
    /\ stamp' = [stamp EXCEPT ![r] = clock + 1]
    /\ pc' = [pc EXCEPT ![r] = "executed"]
    /\ UNCHANGED <<variant, req, conn, ended, fault, resp>>

\* The rest of the try block: the response, then finally calls connection.end().
TryResponse(k, res) ==
    CASE k = "LIST" -> Response(200, "", 0, res.rows)
      [] k = "GET" -> IF Len(res.rows) = 0 THEN NotFound
                      ELSE Response(200, "", 0, <<res.rows[1]>>)
      [] k = "POST" -> Response(201, "Card created successfully", res.insertId, <<>>)
      [] k = "PUT" -> IF res.affectedRows = 0 THEN NotFound
                      ELSE Response(200, "Card updated successfully", 0, <<>>)
      [] k = "DELETE" -> IF res.affectedRows = 0 THEN NotFound
                         ELSE Response(200, "Card deleted successfully", 0, <<>>)

Reply(r) ==
    /\ pc[r] = "executed"
    /\ resp' = [resp EXCEPT ![r] = Append(@, TryResponse(req[r].kind, result[r]))]
    /\ pc' = [pc EXCEPT ![r] = "closing"]
    /\ UNCHANGED <<variant, req, conn, ended, fault, stamp, result, cards, nextId, clock>>

\* connection.execute rejects, the statement having had no effect: catch sends
\* 500, then finally calls connection.end().
ExecFail(r) ==
    /\ pc[r] = "executing"
    /\ fault' = [fault EXCEPT ![r] = "execute"]
    /\ resp' = [resp EXCEPT ![r] = Append(@, CatchResponse(req[r].kind))]
    /\ pc' = [pc EXCEPT ![r] = "closing"]
    /\ UNCHANGED <<variant, req, conn, ended, stamp, result, cards, nextId, clock>>

\* finally { if (connection) await connection.end(); }
End(r) ==
    /\ pc[r] = "closing"
    /\ conn' = [conn EXCEPT ![r] = Finally(@)]
    /\ ended' = [ended EXCEPT ![r] = IF conn[r] = "open" THEN @ + 1 ELSE @]
    /\ pc' = [pc EXCEPT ![r] = "done"]
    /\ UNCHANGED <<variant, req, fault, stamp, result, resp, cards, nextId, clock>>

Step(r) ==
    \/ ConnectOk(r)
    \/ ConnectFail(r)
    \/ ExecOk(r)
    \/ ExecFail(r)
    \/ Reply(r)
    \/ End(r)

Next == \E r \in Req : Receive(r) \/ Step(r)

Spec == Init /\ [][Next]_vars

\* The same server under browser requests from every origin.
NextOrigin == \E r \in Req : ReceiveOrigin(r) \/ Step(r)

SpecOrigin == InitOrigin /\ [][NextOrigin]_vars

(* ------------------- vocabulary of the properties -------------------- *)
\* A required field is present and non-empty / is absent or empty.
Present(x) == x.t = "string" /\ x.v # ""
Missing(x) == x = Undefined \/ x = Null \/ x = Str("")
AllPresent(b) == Present(b.title) /\ Present(b.module_name) /\ Present(b.module_code)
SomeMissing(b) == Missing(b.title) \/ Missing(b.module_name) \/ Missing(b.module_code)

Received(r) == pc[r] # "new"
Responded(r) == resp[r] # <<>>
\* The cross-origin check turned the request away before any route ran.
Rejected(r) == Received(r) /\ Responded(r) /\ resp[r][1].message = "Not allowed by CORS"
\* The request reached its route handler.
Routed(r) == Received(r) /\ ~Rejected(r)
Is(r, k) == Routed(r) /\ req[r].kind = k
Executed(r) == stamp[r] > 0

\* Request u ran a successful UPDATE or DELETE of card id strictly between the
\* statements stamped s and t.
WroteBetween(u, id, s, t) ==
    /\ req[u].kind \in {"PUT", "DELETE"} /\ req[u].id = id
    /\ s < stamp[u] /\ stamp[u] < t

\* Card id existed when the statement stamped t ran: an INSERT before t
\* generated the id and no DELETE of it ran between that INSERT and t.
ExistedAt(id, t) ==
    \E p \in Req :
        /\ req[p].kind = "POST" /\ Executed(p) /\ stamp[p] < t
        /\ result[p].insertId = id
        /\ ~\E d \in Req : /\ req[d].kind = "DELETE" /\ req[d].id = id
                           /\ stamp[p] < stamp[d] /\ stamp[d] < t

\* The five editable fields a card is expected to hold after body b was written.
HoldsBody(c, b) ==
    /\ c.title = b.title /\ c.module_name = b.module_name
    /\ c.module_code = b.module_code
    /\ c.description = (IF b.description.t = "string" THEN b.description ELSE Null)
    /\ c.status = (IF b.status.t = "string" THEN b.status ELSE Str("ACTIVE"))

(* -------------------------------- C1 --------------------------------- *)
\* p is a handled POST with all required fields whose response was sent without
\* a storage error; g is a handled GET of the id p returned, run after p's
\* INSERT with no UPDATE or DELETE of that id in between.
CreatedThenFetched(p, g) ==
    /\ Is(p, "POST") /\ AllPresent(req[p].body) /\ fault[p] = "none" /\ Responded(p)
    /\ Is(g, "GET") /\ fault[g] = "none" /\ Responded(g)
    /\ req[g].id = resp[p][1].id
    /\ stamp[g] > stamp[p]
    /\ ~\E u \in Req : Executed(u) /\ WroteBetween(u, req[g].id, stamp[p], stamp[g])

\* C1: every POST /cards handled with title, module_name and module_code present
\* and non-empty and no storage error is answered 201 with a positive integer
\* id, and a later GET /cards/:id of that id (no update or delete in between) is
\* answered 200 with a card holding the submitted title, module_name and
\* module_code, status "ACTIVE" if status was omitted and description null if
\* description was omitted.
C1_CreateThenGet ==
    \A p \in Req :
        (Is(p, "POST") /\ AllPresent(req[p].body) /\ fault[p] = "none" /\ Responded(p)) =>
            /\ Len(resp[p]) = 1
            /\ resp[p][1].status = 201
            /\ resp[p][1].id \in Nat \ {0}
            /\ \A g \in Req :
                 CreatedThenFetched(p, g) =>
                    /\ resp[g][1].status = 200
                    /\ Len(resp[g][1].rows) = 1
                    /\ LET c == resp[g][1].rows[1]
                           b == req[p].body
                       IN /\ c.id = req[g].id
                          /\ c.title = b.title
                          /\ c.module_name = b.module_name
                          /\ c.module_code = b.module_code
                          /\ (b.status = Undefined => c.status = Str("ACTIVE"))
                          /\ (b.status.t = "string" => c.status = b.status)
                          /\ (b.description = Undefined => c.description = Null)
                          /\ (b.description.t = "string" => c.description = b.description)

\* A card created without status and description has been fetched.
C1_Witness ==
    \E p, g \in Req :
        /\ CreatedThenFetched(p, g)
        /\ req[p].body.status = Undefined /\ req[p].body.description = Undefined
        /\ resp[g][1].status = 200

(* -------------------------------- C2 --------------------------------- *)
\* C2: every POST /cards handled with title, module_name or module_code absent
\* or empty is answered 400 in the step that receives it, and that step leaves
\* the table as it was; the request never opens a connection or runs a statement.
C2_InvalidCreateRejected ==
    [][\A r \in Req :
          (/\ pc[r] = "new" /\ pc'[r] # "new"
           /\ req'[r].kind = "POST" /\ SomeMissing(req'[r].body)
           /\ CorsAllows(variant, req'[r].origin)) =>
              /\ resp'[r] = <<Response(400,
                    "Missing required fields: title, module_name, module_code", 0, <<>>)>>
              /\ pc'[r] = "done"
              /\ conn'[r] = "none"
              /\ cards' = cards /\ nextId' = nextId]_vars

\* An invalid POST was answered 400 while the table held a card.
C2_Witness ==
    \E r \in Req :
        /\ Is(r, "POST") /\ SomeMissing(req[r].body)
        /\ pc[r] = "done" /\ resp[r][1].status = 400
        /\ cards # {}

(* -------------------------------- C3 --------------------------------- *)
\* C3: in every reachable state, every persisted card has a present, non-empty
\* title, module_name and module_code.
C3_RequiredFieldsPersisted ==
    \A c \in cards : Present(c.title) /\ Present(c.module_name) /\ Present(c.module_code)

\* A card that was created and then updated is in the table, and an update with
\* a missing field was attempted.
C3_Witness ==
    /\ \E u \in Req : /\ Is(u, "PUT") /\ Executed(u) /\ result[u].affectedRows = 1
                      /\ \E c \in cards : c.id = req[u].id
    /\ \E v \in Req : Is(v, "PUT") /\ SomeMissing(req[v].body) /\ pc[v] = "done"

(* -------------------------------- C4 --------------------------------- *)
ValidationFailed(r) ==
    Routed(r) /\ req[r].kind \in {"POST", "PUT"} /\ SomeMissing(req[r].body)

\* C4: once a request has finished, no connection it opened remains open, and
\* a connection is closed at most once: a request that got a connection (on
\* success or on a failed statement) has closed it exactly once; a request that
\* failed validation or whose createConnection failed never had one.
C4_ConnectionClosed ==
    \A r \in Req :
        /\ ended[r] <= 1
        /\ (conn[r] = "closed") <=> (ended[r] = 1)
        /\ pc[r] = "done" =>
            /\ conn[r] # "open"
            /\ (Routed(r) /\ ~ValidationFailed(r) /\ fault[r] # "connect") => conn[r] = "closed"
            /\ (ValidationFailed(r) \/ fault[r] = "connect") => conn[r] = "none"

\* Requests have finished on each exit path: success, validation failure,
\* failed statement.
C4_Witness ==
    /\ \E r \in Req : pc[r] = "done" /\ fault[r] = "execute" /\ conn[r] = "closed"
    /\ \E r \in Req : pc[r] = "done" /\ fault[r] = "none" /\ Executed(r)
    /\ \E r \in Req : pc[r] = "done" /\ ValidationFailed(r)

(* -------------------------------- C5 --------------------------------- *)
Ids(table) == {c.id : c \in table}
Others(table, id) == {c \in table : c.id # id}

\* Request r's statement runs in this step.
Runs(r) == pc[r] = "executing" /\ pc'[r] = "executed"

\* C5: for every PUT /cards/:id handled with all required fields and no storage
\* error: if a card with that id exists when the statement runs, the card then
\* holds the new title, module_name, module_code, description and status, every
\* other card is unchanged and the response is 200; if none exists, the table is
\* unchanged and the response is 404.
C5_Update ==
    /\ [][\A r \in Req :
            (Runs(r) /\ req[r].kind = "PUT" /\ AllPresent(req[r].body)) =>
                IF \E c \in cards : c.id = req[r].id
                THEN /\ Ids(cards') = Ids(cards)
                     /\ Others(cards', req[r].id) = Others(cards, req[r].id)
                     /\ \A c \in cards' : c.id = req[r].id =>
                            /\ HoldsBody(c, req[r].body)
                            /\ \E o \in cards : o.id = c.id /\ o.created_at = c.created_at
                ELSE cards' = cards]_vars
    /\ [](\A r \in Req :
            (Is(r, "PUT") /\ AllPresent(req[r].body) /\ fault[r] = "none" /\ Responded(r)) =>
                /\ Len(resp[r]) = 1
                /\ resp[r][1].status = (IF ExistedAt(req[r].id, stamp[r]) THEN 200 ELSE 404))

\* An update of one of two cards was answered 200.
C5_Witness ==
    \E u \in Req : /\ Is(u, "PUT") /\ Responded(u) /\ resp[u][1].status = 200
                   /\ \E c \in cards : c.id = req[u].id /\ HoldsBody(c, req[u].body)
                   /\ \E c \in cards : c.id # req[u].id

\* An update of an id that names no card was answered 404, with a card in the table.
C5_WitnessNotFound ==
    \E v \in Req : /\ Is(v, "PUT") /\ Responded(v) /\ resp[v][1].status = 404
                   /\ cards # {}

(* -------------------------------- C6 --------------------------------- *)
\* d is a handled DELETE that removed a card.
Removed(d) ==
    Is(d, "DELETE") /\ Executed(d) /\ fault[d] = "none" /\ ExistedAt(req[d].id, stamp[d])

\* C6: for every DELETE /cards/:id handled with no storage error: if a card
\* with that id exists when the statement runs, it is removed, every other card
\* is unchanged and the response is 200; afterwards listAll does not include it
\* and getById of that id is answered 404; if none exists, the table is
\* unchanged and the response is 404 (so a second delete of the id gets 404).
C6_Delete ==
    /\ [][\A r \in Req :
            (Runs(r) /\ req[r].kind = "DELETE") =>
                /\ Others(cards', req[r].id) = Others(cards, req[r].id)
                /\ req[r].id \notin Ids(cards')
                /\ (req[r].id \notin Ids(cards)) => cards' = cards]_vars
    /\ [](\A d \in Req :
            /\ (Is(d, "DELETE") /\ fault[d] = "none" /\ Responded(d)) =>
                /\ Len(resp[d]) = 1
                /\ resp[d][1].status = (IF ExistedAt(req[d].id, stamp[d]) THEN 200 ELSE 404)
            /\ Removed(d) =>
                /\ \A g \in Req :
                     (Is(g, "GET") /\ req[g].id = req[d].id /\ stamp[g] > stamp[d]
                      /\ fault[g] = "none" /\ Responded(g)) =>
                         resp[g][1] = Response(404, "Card not found", 0, <<>>)
                /\ \A l \in Req :
                     (Is(l, "LIST") /\ stamp[l] > stamp[d] /\ fault[l] = "none" /\ Responded(l)) =>
                         /\ resp[l][1].status = 200
                         /\ \A i \in 1..Len(resp[l][1].rows) :
                                resp[l][1].rows[i].id # req[d].id
                /\ \A e \in Req :
                     (Is(e, "DELETE") /\ req[e].id = req[d].id /\ stamp[e] > stamp[d]
                      /\ fault[e] = "none" /\ Responded(e)) =>
                         resp[e][1].status = 404)

\* One of two cards was deleted (200), and the id was then fetched (404).
C6_Witness ==
    \E d, g \in Req :
        /\ Removed(d) /\ Responded(d) /\ resp[d][1].status = 200
        /\ Is(g, "GET") /\ req[g].id = req[d].id /\ stamp[g] > stamp[d]
        /\ Responded(g) /\ resp[g][1].status = 404

\* A card was deleted (200) and a second delete of the same id was answered 404.
C6_WitnessTwice ==
    \E d, e \in Req :
        /\ Removed(d) /\ Responded(d) /\ resp[d][1].status = 200
        /\ Is(e, "DELETE") /\ req[e].id = req[d].id /\ stamp[e] > stamp[d]
        /\ Responded(e) /\ resp[e][1].status = 404

(* -------------------------------- C7 --------------------------------- *)
GenericMessages ==
    {"Server error: cards cannot be fetched", "Server error: cannot fetch card",
     "Server error: cannot create card", "Server error: cannot update card",
     "Server error: cannot delete card"}

\* C7: a storage failure, while opening the connection or while executing the
\* statement, is answered in the failing step by exactly one response, 500 with
\* a generic message; the step leaves the table unchanged and the request makes
\* no further attempt; no request ever has more than one response.
C7_StorageError ==
    /\ [][\A r \in Req :
            /\ (fault[r] = "none" /\ fault'[r] # "none") =>
                /\ Len(resp'[r]) = 1
                /\ resp'[r][1].status = 500
                /\ resp'[r][1].message \in GenericMessages
                /\ resp'[r][1].rows = <<>> /\ resp'[r][1].id = 0
                /\ cards' = cards /\ nextId' = nextId
                /\ stamp'[r] = 0
            /\ fault[r] # "none" =>
                /\ fault'[r] = fault[r] /\ resp'[r] = resp[r] /\ stamp'[r] = stamp[r]
                /\ pc'[r] \in {"closing", "done"}
            /\ Len(resp[r]) <= Len(resp'[r])]_vars
    /\ [](\A r \in Req : Len(resp[r]) <= 1)

\* A connection failure and a statement failure have each been answered 500,
\* with cards in the table.
C7_Witness ==
    /\ \E r \in Req : fault[r] = "connect" /\ pc[r] = "done" /\ resp[r][1].status = 500
    /\ \E r \in Req : fault[r] = "execute" /\ pc[r] = "done" /\ resp[r][1].status = 500
                      /\ req[r].kind \in {"PUT", "DELETE"}
    /\ cards # {}

(* -------------------------------- C8 --------------------------------- *)
\* The origins of Origins that a wildcard pattern for one hosting provider's
\* subdomains (https://*.onrender.com) would match.
WildcardOrigins == {"https://cards.onrender.com"}

\* C8 as stated: the cross-origin check allows a request if and only if it has
\* no Origin header, or its origin is in the allow-list, or its origin matches
\* the wildcard pattern; a request with any other origin is rejected with a
\* "Not allowed by CORS" error.
C8_AsStated ==
    \A r \in Req :
        Received(r) =>
            (~Rejected(r) <=> \/ req[r].origin = NoOrigin
                              \/ req[r].origin \in {"http://localhost:3000", "http://localhost:5173"}
                              \/ req[r].origin \in WildcardOrigins)

\* C8 amended: the program with the origin callback allows a request if and
\* only if it has no Origin header or its origin is in the allow-list, and
\* rejects every other origin, the hosting provider's subdomains included, with
\* a "Not allowed by CORS" error before any route runs; the program with the
\* default cors() allows every request.  Requests without an Origin header are
\* always allowed.
C8_CrossOrigin ==
    \A r \in Req :
        Received(r) =>
            /\ variant = 1 =>
                  (~Rejected(r) <=> \/ req[r].origin = NoOrigin
                                    \/ req[r].origin \in {"http://localhost:3000",
                                                          "http://localhost:5173"})
            /\ variant = 2 => ~Rejected(r)
            /\ req[r].origin = NoOrigin => ~Rejected(r)
            /\ Rejected(r) =>
                  /\ resp[r] = <<Response(500, "Not allowed by CORS", 0, <<>>)>>
                  /\ pc[r] = "done" /\ conn[r] = "none" /\ stamp[r] = 0

\* Under the origin callback a provider subdomain was rejected while a request
\* without Origin and one from the allow-list were served.
C8_Witness ==
    /\ variant = 1
    /\ \E r \in Req : req[r].origin \in WildcardOrigins /\ Rejected(r)
    /\ \E r \in Req : Received(r) /\ req[r].origin = NoOrigin /\ Executed(r)
    /\ \E r \in Req : Received(r) /\ req[r].origin = "http://localhost:3000" /\ Executed(r)

(* -------------------------------- C9 --------------------------------- *)
\* C9: update is a full replace: when the statement of a PUT /cards/:id that
\* omits description (status) runs on an existing card, the card's description
\* becomes null (its status "ACTIVE") whatever it was before; and validation
\* comes before any storage access: a PUT with a missing required field is
\* answered 400 in the step that receives it, whether or not the id exists,
\* without a connection and with the table unchanged.
C9_FullReplace ==
    [][\A r \in Req :
          /\ (Runs(r) /\ req[r].kind = "PUT") =>
                \A c \in cards' : c.id = req[r].id =>
                    /\ req[r].body.description = Undefined => c.description = Null
                    /\ req[r].body.status = Undefined => c.status = Str("ACTIVE")
          /\ (/\ pc[r] = "new" /\ pc'[r] # "new"
              /\ req'[r].kind = "PUT" /\ SomeMissing(req'[r].body)
              /\ CorsAllows(variant, req'[r].origin)) =>
                /\ resp'[r] = <<Response(400,
                      "Missing required fields: title, module_name, module_code", 0, <<>>)>>
                /\ pc'[r] = "done" /\ conn'[r] = "none"
                /\ cards' = cards]_vars

\* A card created with a description and status "DONE" was updated by a PUT
\* that omits both and now has description null and status "ACTIVE".
C9_Witness ==
    \E p, u \in Req :
        /\ Is(p, "POST") /\ Executed(p)
        /\ req[p].body.status = Str("DONE") /\ req[p].body.description.t = "string"
        /\ Is(u, "PUT") /\ req[u].id = result[p].insertId /\ stamp[u] > stamp[p]
        /\ req[u].body.status = Undefined /\ req[u].body.description = Undefined
        /\ \E c \in cards : c.id = req[u].id /\ c.status = Str("ACTIVE") /\ c.description = Null

\* A PUT with a missing field was answered 400 for an id that names no card.
C9_WitnessInvalid ==
    \E u \in Req :
        /\ Is(u, "PUT") /\ SomeMissing(req[u].body) /\ pc[u] = "done"
        /\ resp[u][1].status = 400 /\ req[u].id \notin Ids(cards)

(* -------------------------------- C10 -------------------------------- *)
\* The serial execution of the statements in the order they ran: SerialTable(t)
\* is the table, and the next id, after the statements stamped 1..t.
RanAt(t) == CHOOSE r \in Req : stamp[r] = t

SerialApply(T, r) ==
    LET b == req[r].body
        row == [id |-> T.next, title |-> b.title, module_name |-> b.module_name,
                module_code |-> b.module_code,
                description |-> IF b.description.t = "string" THEN b.description ELSE Null,
                status |-> IF b.status.t = "string" THEN b.status ELSE Str("ACTIVE"),
                created_at |-> stamp[r]]
    IN CASE req[r].kind = "POST" -> [rows |-> T.rows \cup {row}, next |-> T.next + 1]
         [] req[r].kind = "PUT" ->
               [T EXCEPT !.rows = {IF c.id = req[r].id
                                   THEN [row EXCEPT !.id = c.id, !.created_at = c.created_at]
                                   ELSE c : c \in T.rows}]
         [] req[r].kind = "DELETE" -> [T EXCEPT !.rows = {c \in T.rows : c.id # req[r].id}]
         [] OTHER -> T

RECURSIVE SerialTable(_)
SerialTable(t) ==
    IF t = 0 THEN [rows |-> {}, next |-> 1]
    ELSE SerialApply(SerialTable(t - 1), RanAt(t))

\* Response a is the one request r gets when its statement runs on table T.
SerialAnswer(a, r, T) ==
    LET hit == {c \in T.rows : c.id = req[r].id}
    IN CASE req[r].kind = "LIST" ->
              /\ a.status = 200
              /\ Len(a.rows) = Cardinality(T.rows)
              /\ {a.rows[i] : i \in 1..Len(a.rows)} = T.rows
              /\ \A i, j \in 1..Len(a.rows) :
                     i < j => a.rows[i].created_at >= a.rows[j].created_at
         [] req[r].kind = "GET" ->
              IF hit = {} THEN a.status = 404
              ELSE a.status = 200 /\ Len(a.rows) = 1 /\ a.rows[1] \in hit
         [] req[r].kind = "POST" -> a.status = 201 /\ a.id = T.next
         [] OTHER -> a.status = (IF hit = {} THEN 404 ELSE 200)

\* u and v are handled statements on the same card id, run while a card with
\* that id had been created before both.
OnSameCard(u, v) ==
    /\ u # v /\ Executed(u) /\ Executed(v) /\ req[u].id = req[v].id
    /\ \E p \in Req : /\ req[p].kind = "POST" /\ Executed(p)
                      /\ result[p].insertId = req[u].id
                      /\ stamp[p] < stamp[u] /\ stamp[p] < stamp[v]

\* C10: under any interleaving each request runs exactly one statement,
\* atomically, on its own connection, so the table and every response equal
\* those of the serial execution of the statements in the order they ran.  Two
\* updates of the same existing id are both answered 200 and the row holds the
\* fields of the one whose statement ran last; for an update and a delete of the
\* same existing id the card is absent afterwards, the delete is answered 200
\* and the update 200 or 404 as its statement ran before or after the delete.
C10_Serial ==
    /\ {stamp[r] : r \in {q \in Req : Executed(q)}} = 1..clock
    /\ \A r, q \in Req : (Executed(r) /\ stamp[r] = stamp[q]) => r = q
    /\ cards = SerialTable(clock).rows
    /\ \A r \in Req :
         /\ Executed(r) => Routed(r) /\ conn[r] # "none"
         /\ (Executed(r) /\ Responded(r)) =>
               /\ Len(resp[r]) = 1
               /\ SerialAnswer(resp[r][1], r, SerialTable(stamp[r] - 1))
    /\ \A u, v \in Req :
         (/\ OnSameCard(u, v) /\ req[u].kind = "PUT" /\ req[v].kind = "PUT"
          /\ ExistedAt(req[u].id, stamp[u]) /\ ExistedAt(req[v].id, stamp[v])
          /\ stamp[u] < stamp[v]) =>
             /\ Responded(u) => resp[u][1].status = 200
             /\ Responded(v) => resp[v][1].status = 200
             /\ (~\E w \in Req : WroteBetween(w, req[v].id, stamp[v], clock + 1)) =>
                   \E c \in cards : c.id = req[v].id /\ HoldsBody(c, req[v].body)
    /\ \A u, d \in Req :
         (/\ OnSameCard(u, d) /\ req[u].kind = "PUT" /\ req[d].kind = "DELETE"
          /\ ExistedAt(req[d].id, stamp[d])) =>
             /\ req[d].id \notin Ids(cards)
             /\ Responded(d) => resp[d][1].status = 200
             /\ Responded(u) =>
                   resp[u][1].status = (IF stamp[u] < stamp[d] THEN 200 ELSE 404)

\* An update and a delete of the same existing card overlapped: the delete ran
\* after the update's statement and before the update's response, and the
\* card is gone.
C10_Witness ==
    \E u, d \in Req :
        /\ OnSameCard(u, d) /\ req[u].kind = "PUT" /\ req[d].kind = "DELETE"
        /\ stamp[u] < stamp[d] /\ pc[u] = "executed"
        /\ req[d].id \notin Ids(cards)

\* Two updates of the same existing card overlapped and both were answered
\* 200; the row holds the fields of the later statement, which differ from
\* those of the earlier.
C10_WitnessLastWrite ==
    \E u, v \in Req :
        /\ OnSameCard(u, v) /\ req[u].kind = "PUT" /\ req[v].kind = "PUT"
        /\ stamp[u] < stamp[v] /\ req[u].body # req[v].body
        /\ Responded(u) /\ resp[u][1].status = 200
        /\ Responded(v) /\ resp[v][1].status = 200
        /\ \E c \in cards : c.id = req[v].id /\ HoldsBody(c, req[v].body)

\* An update whose statement ran after the delete of its card was answered 404.
C10_WitnessUpdateAfterDelete ==
    \E u, d \in Req :
        /\ OnSameCard(u, d) /\ req[u].kind = "PUT" /\ req[d].kind = "DELETE"
        /\ stamp[d] < stamp[u] /\ Responded(u) /\ resp[u][1].status = 404
        /\ Responded(d) /\ resp[d][1].status = 200

====
